---------------------------- MODULE Spec2Model ----------------------------
(***************************************************************************)
(* Model of .lefthook/pre-commit/link_generator.py: the pre-commit hook    *)
(* that reads README.md, extracts the ordered list of docs links, and      *)
(* rewrites a navigation line at the top and bottom of every listed file.  *)
(*                                                                         *)
(* Text encoding.  A Python str is modelled as a sequence of tokens.  Each *)
(* token stands for a fixed run of characters and is written as the        *)
(* characters themselves, except for the two arrows, which are spelt in    *)
(* ASCII:                                                                  *)
(*     "<- Previous:"  is the source text "← Previous:"                    *)
(*     "->"            is the source text "→"                              *)
(* The only whitespace tokens are " " and "\n"; every other token holds no *)
(* whitespace at either end, no newline, and none of the characters        *)
(* "[", "]", "(", ")" unless it is that one character.  Under this         *)
(* encoding a regular expression over characters reads token by token.     *)
(* Python's None is the empty sequence (both are falsy in the source's     *)
(* `if prev_file:` tests).  Python list positions 0..n-1 are 1..n here.    *)
(***************************************************************************)
EXTENDS Integers, Sequences, FiniteSets, TLC

VARIABLES
    \* process_documentation_files, the file system and the console
    pc,            \* "start" | "loop" | "done" | "failed"
    fs,            \* file system: existing file -> its text
    doc_files,     \* the ordered link list (line 56)
    i,             \* loop position, 1-based (line 59)
    stdout,        \* printed lines (lines 63, 74)
    fs0,           \* history: fs when the current run started
    writes,        \* history: file -> texts written to it by the current run
    failed,        \* history: list position whose read/write raised (0: none,
                   \*          -1: the index document itself)
    runs,          \* history: number of runs started
    \* direct calls of add_navigation_links
    content, prev_file, next_file,
    orig,          \* the argument of the first call
    once,          \* the result of the first call
    calls,         \* number of calls made
    \* direct calls of extract_doc_links_from_readme
    readme_content, links, extracted

pvars == <<pc, fs, doc_files, i, stdout, fs0, writes, failed, runs>>
nvars == <<content, prev_file, next_file, orig, once, calls>>
evars == <<readme_content, links, extracted>>
vars  == <<pvars, nvars, evars>>

-----------------------------------------------------------------------------
(* Bounds of the model *)

\* longest index text of the extractor runs, in chunks
MaxChunks == 4
\* most links in the index document of a pipeline run
MaxLinks == 3
\* longest content handed to add_navigation_links directly, in pieces
MaxPieces == 3
\* most runs of the hook in a row
MaxRuns == 3
\* most links in the index document when the hook runs several times
MaxRunLinks == 2

-----------------------------------------------------------------------------
(* Generic helpers *)

None == <<>>

SeqsUpTo(S, n) == UNION {[1..k -> S] : k \in 0..n}

RECURSIVE Flatten(_)
Flatten(ss) == IF ss = <<>> THEN <<>> ELSE Head(ss) \o Flatten(Tail(ss))

Range(s) == {s[k] : k \in 1..Len(s)}

\* the state of the parts of the program a specification does not run
IdlePipeline ==
    /\ pc = "idle" /\ fs = <<>> /\ doc_files = <<>> /\ i = 0 /\ stdout = <<>>
    /\ fs0 = <<>> /\ writes = <<>> /\ failed = 0 /\ runs = 0

IdleNav ==
    /\ content = <<>> /\ prev_file = None /\ next_file = None
    /\ orig = <<>> /\ once = <<>> /\ calls = 0

IdleExtract == readme_content = <<>> /\ links = <<>> /\ extracted = FALSE

-----------------------------------------------------------------------------
(* str methods *)

IsSpace(t) == t \in {" ", "\n"}

\* str.strip(): drop leading and trailing whitespace
Strip(s) ==
    LET solid == {k \in 1..Len(s) : ~IsSpace(s[k])}
    IN  IF solid = {} THEN <<>>
        ELSE SubSeq(s, CHOOSE a \in solid : \A k \in solid : a <= k,
                       CHOOSE b \in solid : \A k \in solid : k <= b)

\* str.title() on one word of a file name: first letter upper, rest
\* lower; a token that is no word of letters is left as it is
TitleWord(w) ==
    CASE w = "a" -> "A"
      [] w = "b" -> "B"
      [] w = "x" -> "X"
      [] w = "README" -> "Readme"
      [] w = ".md" -> ".Md"
      [] OTHER -> w

\* str.replace("_", " ").title(), token by token: "_" separates words
TitleOf(stem) == [k \in 1..Len(stem) |->
                    IF stem[k] = "_" THEN " " ELSE TitleWord(stem[k])]

-----------------------------------------------------------------------------
(* pathlib *)

IsDirToken(t) == t \in {"docs/", "./", "../"}

\* Path(p).name: the last path component
PathName(p) ==
    LET dirs == {k \in 1..Len(p) : IsDirToken(p[k])}
    IN  IF dirs = {} THEN p
        ELSE SubSeq(p, (CHOOSE d \in dirs : \A k \in dirs : k <= d) + 1, Len(p))

\* Path(p).stem: the name without its last suffix (a name that is only
\* ".md" is a dot-file and has no suffix)
PathStem(p) ==
    LET n == PathName(p)
    IN  IF Len(n) >= 2 /\ n[Len(n)] = ".md" THEN SubSeq(n, 1, Len(n) - 1) ELSE n

\* readme_path.parent / p, as the operating system resolves it: pathlib
\* drops "." components, the system resolves "docs/.." to the root
Resolve(p) ==
    LET q == SelectSeq(p, LAMBDA t : t # "./")
    IN  IF Len(q) >= 2 /\ q[1] = "docs/" /\ q[2] = "../"
        THEN SubSeq(q, 3, Len(q)) ELSE q

README == <<"README", ".md">>

PathA == <<"docs/", "a", ".md">>
PathB == <<"docs/", "b", ".md">>
PathAB == <<"docs/", "a", "_", "b", ".md">>

-----------------------------------------------------------------------------
(* extract_doc_links_from_readme *)

\* the lazy `(docs/.*?\.md)\)` tail: the first ".md" ")" at or after j
\* with no newline before it ("." does not match a newline); 0 if none
RECURSIVE ScanClose(_, _)
ScanClose(s, j) ==
    IF j + 1 > Len(s) THEN 0
    ELSE IF s[j] = ".md" /\ s[j + 1] = ")" THEN j
    ELSE IF s[j] = "\n" THEN 0
    ELSE ScanClose(s, j + 1)

\* the lazy `.*?\]\(docs/` after a "[": the first k at or after `from`
\* with "]" "(" "docs/" at k for which the tail matches; <<k, j>> or <<>>
RECURSIVE ScanOpen(_, _)
ScanOpen(s, k) ==
    IF k + 2 > Len(s) THEN <<>>
    ELSE IF s[k] = "]" /\ s[k + 1] = "(" /\ s[k + 2] = "docs/"
            /\ ScanClose(s, k + 3) # 0
         THEN <<k, ScanClose(s, k + 3)>>
    ELSE IF s[k] = "\n" THEN <<>>
    ELSE ScanOpen(s, k + 1)

\* re.findall(r"\[.*?\]\((docs/.*?\.md)\)", s) from position p: leftmost
\* non-overlapping matches, the captured group of each
RECURSIVE FindAll(_, _)
FindAll(s, p) ==
    IF p > Len(s) THEN <<>>
    ELSE LET m == IF s[p] = "[" THEN ScanOpen(s, p + 1) ELSE <<>>
         IN  IF m = <<>> THEN FindAll(s, p + 1)
             ELSE <<SubSeq(s, m[1] + 2, m[2])>> \o FindAll(s, m[2] + 2)

\* a plausible slip: a dict built so that a later occurrence replaces the
\* earlier one's position
RECURSIVE KeepLast(_)
KeepLast(xs) ==
    IF xs = <<>> THEN <<>>
    ELSE IF Head(xs) \in Range(Tail(xs)) THEN KeepLast(Tail(xs))
    ELSE <<Head(xs)>> \o KeepLast(Tail(xs))

\* list(dict.fromkeys(xs)): first occurrences, in order
RECURSIVE DictFromKeys(_)
DictFromKeys(xs) ==
    IF xs = <<>> THEN <<>>
    ELSE LET rest == DictFromKeys(SubSeq(xs, 1, Len(xs) - 1))
             last == xs[Len(xs)]
         IN  IF last \in Range(rest) THEN rest ELSE Append(rest, last)

extract_doc_links_from_readme(text) == DictFromKeys(FindAll(text, 1))

-----------------------------------------------------------------------------
(* add_navigation_links *)

\* get_relative_link: docs/file.md -> file.md
get_relative_link(file_path) == PathName(file_path)

\* f"[← Previous: {prev_name}]({prev_link})"   (lines 26-28)
PrevHalf(p) ==
    <<"[", "<- Previous:", " ">> \o TitleOf(PathStem(p))
        \o <<"]", "(">> \o get_relative_link(p) \o <<")">>

\* f"[Next: {next_name} →]({next_link})"   (lines 30-32)
NextHalf(p) ==
    <<"[", "Next:", " ">> \o TitleOf(PathStem(p))
        \o <<" ", "->", "]", "(">> \o get_relative_link(p) \o <<")">>

\* the list `navigation` of lines 23-32
Navigation(prev, next) ==
    (IF prev # None THEN <<PrevHalf(prev)>> ELSE <<>>)
        \o (IF next # None THEN <<NextHalf(next)>> ELSE <<>>)

\* " | ".join(navigation)
RECURSIVE JoinBar(_)
JoinBar(parts) ==
    IF parts = <<>> THEN <<>>
    ELSE IF Len(parts) = 1 THEN parts[1]
    ELSE parts[1] \o <<" ", "|", " ">> \o JoinBar(Tail(parts))

\* position of the first "\n" at or after q, 0 if there is none
RECURSIVE NextNewline(_, _)
NextNewline(s, q) ==
    IF q > Len(s) THEN 0
    ELSE IF s[q] = "\n" THEN q
    ELSE NextNewline(s, q + 1)

\* re.sub(r"\[<mark>.*?\n", "", s) from position p: every "[" <mark>
\* that has a newline after it is cut out up to and including that newline
RECURSIVE ReSubLine(_, _, _)
ReSubLine(s, mark, p) ==
    IF p > Len(s) THEN <<>>
    ELSE IF /\ s[p] = "[" /\ p + 1 <= Len(s) /\ s[p + 1] = mark
            /\ NextNewline(s, p + 2) # 0
         THEN ReSubLine(s, mark, NextNewline(s, p + 2) + 1)
    ELSE <<s[p]>> \o ReSubLine(s, mark, p + 1)

\* lines 39-43
StripOldNavigation(c) ==
    IF "<- Previous:" \in Range(c) \/ "Next:" \in Range(c)
    THEN ReSubLine(ReSubLine(c, "<- Previous:", 1), "Next:", 1)
    ELSE c

add_navigation_links(c, prev, next) ==
    LET navigation == Navigation(prev, next)
        nav_text   == JoinBar(navigation)
        nav_block  == <<"\n">> \o nav_text \o <<"\n">>
    IN  IF navigation = <<>> THEN c
        ELSE nav_block \o <<"\n">> \o Strip(StripOldNavigation(c))
                 \o <<"\n">> \o nav_block \o <<"\n">>

-----------------------------------------------------------------------------
(* Index texts *)

Link(t) == <<"[", "]", "(", "docs/">> \o t \o <<".md", ")">>

\* pieces of index text for the extractor: two links, a link whose
\* closing parenthesis is missing, a link that does not point into docs/,
\* and a line break
IndexChunks ==
    { Link(<<"a">>), Link(<<"b">>),
      <<"[", "]", "(", "docs/", "a", ".md">>,
      <<"[", "]", "(", "b", ".md", ")">>,
      <<"\n">> }

ExtractInputs == {Flatten(cs) : cs \in SeqsUpTo(IndexChunks, MaxChunks)}

-----------------------------------------------------------------------------
(* The file system of a pipeline run *)

\* link targets of the index document: three files, a second spelling of
\* the first, and a path that leaves docs/ and names the index itself
Targets ==
    { <<"a">>, <<"b">>, <<"a", "_", "b">>, <<"./", "a">>, <<"../", "README">> }

IndexTextsOver(targets, n) ==
    {Flatten([k \in 1..Len(ts) |-> Link(ts[k])]) : ts \in SeqsUpTo(targets, n)}

IndexTexts == IndexTextsOver(Targets, MaxLinks)

DocFiles == {PathA, PathB, PathAB}

AllFiles == DocFiles \cup {README}

\* what a documentation file holds before the first run: plain text, or
\* text whose last line starts like a navigation line and has no newline
InitContents ==
    { <<"x", "\n">>, <<"x", "\n", "[", "<- Previous:", " ", "x">> }

DocDisks == UNION {[ex -> InitContents] : ex \in SUBSET DocFiles}

MkDisk(text, docs) ==
    [f \in DOMAIN docs \cup {README} |-> IF f = README THEN text ELSE docs[f]]

NoWrites == [f \in AllFiles |-> <<>>]

-----------------------------------------------------------------------------
(* process_documentation_files *)

InitPipeline(texts, disks) ==
    /\ fs \in {MkDisk(t, d) : t \in texts, d \in disks}
    /\ fs0 = fs
    /\ pc = "start"
    /\ doc_files = <<>>
    /\ i = 0
    /\ stdout = <<>>
    /\ writes = NoWrites
    /\ failed = 0
    /\ runs = 1
    /\ IdleNav /\ IdleExtract

\* lines 53-56: read the index, extract the ordered list
Start ==
    /\ pc = "start"
    /\ README \in DOMAIN fs
    /\ doc_files' = extract_doc_links_from_readme(fs[README])
    /\ i' = 1
    /\ pc' = "loop"
    /\ UNCHANGED <<fs, stdout, fs0, writes, failed, runs, nvars, evars>>

\* line 53 raises (the index cannot be read): nothing catches it
StartFails ==
    /\ pc = "start"
    /\ pc' = "failed"
    /\ failed' = -1
    /\ UNCHANGED <<fs, doc_files, i, stdout, fs0, writes, runs, nvars, evars>>

current_path == Resolve(doc_files[i])

\* a plausible slip: Python's doc_files[i - 1] without the `if i > 0`
\* guard, which wraps to the last entry at position 0
PrevFileWraps(files, k) == IF k > 1 THEN files[k - 1] ELSE files[Len(files)]

\* line 66
PrevFile(files, k) == IF k > 1 THEN files[k - 1] ELSE None

\* line 67
NextFile(files, k) == IF k < Len(files) THEN files[k + 1] ELSE None

\* a plausible slip: no `continue`, the missing file is written anyway
SkipMissingWrites ==
    /\ pc = "loop" /\ i <= Len(doc_files)
    /\ current_path \notin DOMAIN fs
    /\ stdout' = Append(stdout, <<"Warning", doc_files[i]>>)
    /\ fs' = [f \in DOMAIN fs \cup {current_path} |->
                IF f = current_path
                THEN add_navigation_links(<<>>, PrevFile(doc_files, i),
                                          NextFile(doc_files, i))
                ELSE fs[f]]
    /\ i' = i + 1
    /\ UNCHANGED <<pc, doc_files, fs0, writes, failed, runs, nvars, evars>>

\* lines 62-64: the file does not exist: warn and go on
SkipMissing ==
    /\ pc = "loop" /\ i <= Len(doc_files)
    /\ current_path \notin DOMAIN fs
    /\ stdout' = Append(stdout, <<"Warning", doc_files[i]>>)
    /\ i' = i + 1
    /\ UNCHANGED <<pc, fs, doc_files, fs0, writes, failed, runs, nvars, evars>>

\* lines 66-74: read, add the navigation, write back, report
UpdateFile ==
    /\ pc = "loop" /\ i <= Len(doc_files)
    /\ current_path \in DOMAIN fs
    /\ LET updated_content ==
               add_navigation_links(fs[current_path], PrevFile(doc_files, i),
                                    NextFile(doc_files, i))
       IN  /\ fs' = [fs EXCEPT ![current_path] = updated_content]
           /\ writes' = [writes EXCEPT
                           ![current_path] = Append(@, updated_content)]
    /\ stdout' = Append(stdout, <<"Updated", doc_files[i]>>)
    /\ i' = i + 1
    /\ UNCHANGED <<pc, doc_files, fs0, failed, runs, nvars, evars>>

\* line 69 raises (permissions, encoding, a directory): nothing catches it
ReadFails ==
    /\ pc = "loop" /\ i <= Len(doc_files)
    /\ current_path \in DOMAIN fs
    /\ pc' = "failed"
    /\ failed' = i
    /\ UNCHANGED <<fs, doc_files, i, stdout, fs0, writes, runs, nvars, evars>>

\* line 73 raises: the file is as it was (it could not be opened) or is
\* empty (it was opened, which truncates it, and the text could not be
\* encoded or flushed)
WriteFails ==
    /\ pc = "loop" /\ i <= Len(doc_files)
    /\ current_path \in DOMAIN fs
    /\ \E left \in {fs[current_path], <<>>} :
          fs' = [fs EXCEPT ![current_path] = left]
    /\ pc' = "failed"
    /\ failed' = i
    /\ UNCHANGED <<doc_files, i, stdout, fs0, writes, runs, nvars, evars>>

\* the loop of line 59 is exhausted: the function returns
Finish ==
    /\ pc = "loop" /\ i > Len(doc_files)
    /\ pc' = "done"
    /\ UNCHANGED <<fs, doc_files, i, stdout, fs0, writes, failed, runs, nvars, evars>>

Init == InitPipeline(IndexTexts, DocDisks)

Next ==
    \/ Start
    \/ StartFails
    \/ SkipMissing
    \/ UpdateFile
    \/ ReadFails
    \/ WriteFails
    \/ Finish

Spec == Init /\ [][Next]_vars

-----------------------------------------------------------------------------
(* The hook run again and again, the index edited in between *)

RunTargets == { <<"a">>, <<"b">> }

RunIndexTexts == IndexTextsOver(RunTargets, MaxRunLinks)

RunDisks == UNION {[ex -> {<<"x", "\n">>}] :
                      ex \in SUBSET {PathA, PathB}}

InitRuns == InitPipeline(RunIndexTexts, RunDisks)

\* between two commits the index document is edited (or left as it is)
\* and the hook starts again (lines 77-79); a run that raised ends the
\* sequence of runs followed here
NextRun ==
    /\ pc = "done"
    /\ runs < MaxRuns
    /\ \E t \in RunIndexTexts : fs' = [fs EXCEPT ![README] = t]
    /\ fs0' = fs'
    /\ pc' = "start"
    /\ doc_files' = <<>>
    /\ i' = 0
    /\ stdout' = <<>>
    /\ writes' = NoWrites
    /\ failed' = 0
    /\ runs' = runs + 1
    /\ UNCHANGED <<nvars, evars>>

NextRuns ==
    \/ Start
    \/ StartFails
    \/ SkipMissing
    \/ UpdateFile
    \/ ReadFails
    \/ WriteFails
    \/ Finish
    \/ NextRun

SpecRuns == InitRuns /\ [][NextRuns]_vars

-----------------------------------------------------------------------------
(* Direct calls of extract_doc_links_from_readme *)

InitExtract ==
    /\ readme_content \in ExtractInputs
    /\ links = <<>>
    /\ extracted = FALSE
    /\ IdlePipeline /\ IdleNav

CallExtract ==
    /\ ~extracted
    /\ links' = extract_doc_links_from_readme(readme_content)
    /\ extracted' = TRUE
    /\ UNCHANGED <<readme_content, pvars, nvars>>

NextExtract == CallExtract

SpecExtract == InitExtract /\ [][NextExtract]_vars

-----------------------------------------------------------------------------
(* C1 *)

\* the pattern of line 9 stated as a condition on positions: a "[", later
\* on the same line "]" "(" "docs/", later on the same line ".md" ")"
HasLink(s) ==
    \E k \in 1..Len(s) :
        /\ k + 4 <= Len(s)
        /\ s[k] = "]" /\ s[k + 1] = "(" /\ s[k + 2] = "docs/"
        /\ \E p \in 1..(k - 1) :
              s[p] = "[" /\ \A m \in p..k : s[m] # "\n"
        /\ \E j \in (k + 3)..(Len(s) - 1) :
              s[j] = ".md" /\ s[j + 1] = ")" /\ \A m \in k..j : s[m] # "\n"

FirstIndex(xs, x) == CHOOSE k \in 1..Len(xs) : xs[k] = x /\ \A m \in 1..(k - 1) : xs[m] # x

\* C1: extract_doc_links_from_readme returns every matched path once, the
\* paths ordered by their first occurrence in the text, and returns the
\* empty sequence exactly when the text holds no matching link.
C1_ExtractUniqueInFirstSeenOrder ==
    extracted =>
        LET raw == FindAll(readme_content, 1)
        IN  /\ \A a, b \in 1..Len(links) : a # b => links[a] # links[b]
            /\ Range(links) = Range(raw)
            /\ \A a, b \in 1..Len(links) :
                  a < b => FirstIndex(raw, links[a]) < FirstIndex(raw, links[b])
            /\ (links = <<>>) <=> ~HasLink(readme_content)

\* a text in which a path is linked twice, with another path between
C1_Witness ==
    /\ extracted
    /\ Len(links) >= 2
    /\ \E a, b, c \in 1..Len(FindAll(readme_content, 1)) :
          LET raw == FindAll(readme_content, 1)
          IN  a < b /\ b < c /\ raw[a] = raw[c] /\ raw[a] # raw[b]

-----------------------------------------------------------------------------
(* Direct calls of add_navigation_links *)

\* pieces of content: text, whitespace, the two markers at the head of a
\* link, the word "Next:" alone, and navigation lines as the function
\* writes them
NavPieces ==
    { <<"x">>, <<" ">>, <<"\n">>,
      <<"[", "Next:">>, <<"[", "<- Previous:">>, <<"Next:">>,
      NextHalf(PathB),
      JoinBar(<<PrevHalf(PathA), NextHalf(PathB)>>) }

NavInputs == {Flatten(ps) : ps \in SeqsUpTo(NavPieces, MaxPieces)}

InitNav ==
    /\ content \in NavInputs
    /\ prev_file \in {None, PathA}
    /\ next_file \in {None, PathB}
    /\ orig = content
    /\ once = <<>>
    /\ calls = 0
    /\ IdlePipeline /\ IdleExtract

\* one call; its result is the argument of the next
CallAddNavigation ==
    /\ calls < 2
    /\ content' = add_navigation_links(content, prev_file, next_file)
    /\ once' = IF calls = 0 THEN content' ELSE once
    /\ calls' = calls + 1
    /\ UNCHANGED <<prev_file, next_file, orig, pvars, evars>>

NextNav == CallAddNavigation

SpecNav == InitNav /\ [][NextNav]_vars

-----------------------------------------------------------------------------
(* What the claims speak of, stated apart from the program's operators *)

\* text.split("\n")
RECURSIVE Lines(_)
Lines(s) ==
    LET nl == {k \in 1..Len(s) : s[k] = "\n"}
    IN  IF nl = {} THEN <<s>>
        ELSE LET k == CHOOSE m \in nl : \A q \in nl : m <= q
             IN  <<SubSeq(s, 1, k - 1)>> \o Lines(SubSeq(s, k + 1, Len(s)))

StartsLikeNavigation(line) ==
    Len(line) >= 2 /\ line[1] = "[" /\ line[2] \in {"<- Previous:", "Next:"}

\* the title and the relative link the navigation shows for a list entry
ShownTitle(p) ==
    CASE p = PathA -> <<"A">>
      [] p = PathB -> <<"B">>
      [] p = PathAB -> <<"A", " ", "B">>
      [] p = <<"docs/", "./", "a", ".md">> -> <<"A">>
      [] p = <<"docs/", "../", "README", ".md">> -> <<"Readme">>

ShownLink(p) ==
    CASE p = PathA -> <<"a", ".md">>
      [] p = PathB -> <<"b", ".md">>
      [] p = PathAB -> <<"a", "_", "b", ".md">>
      [] p = <<"docs/", "./", "a", ".md">> -> <<"a", ".md">>
      [] p = <<"docs/", "../", "README", ".md">> -> <<"README", ".md">>

PreviousLink(p) ==
    <<"[", "<- Previous:", " ">> \o ShownTitle(p) \o <<"]", "(">>
        \o ShownLink(p) \o <<")">>

NextLink(p) ==
    <<"[", "Next:", " ">> \o ShownTitle(p) \o <<" ", "->", "]", "(">>
        \o ShownLink(p) \o <<")">>

\* the navigation line for neighbours p (before) and n (after)
NavigationLine(p, n) ==
    IF p # None /\ n # None THEN PreviousLink(p) \o <<" ", "|", " ">> \o NextLink(n)
    ELSE IF p # None THEN PreviousLink(p)
    ELSE IF n # None THEN NextLink(n)
    ELSE <<>>

\* the navigation line a file at list position k is to carry
LineAt(k) ==
    NavigationLine(IF k > 1 THEN doc_files[k - 1] ELSE None,
                   IF k < Len(doc_files) THEN doc_files[k + 1] ELSE None)

FileAt(k) == Resolve(doc_files[k])

Positions == 1..Len(doc_files)

\* every entry names an existing file of its own
ListOfExistingFiles ==
    /\ \A k \in Positions : FileAt(k) \in DOMAIN fs0
    /\ \A k, m \in Positions : k # m => FileAt(k) # FileAt(m)

\* the text is framed by `line`: blank, line, blank, ..., blank, line, blank
FramedBy(text, line) ==
    LET L == Lines(text)
        n == Len(L)
    IN  /\ n >= 8
        /\ L[1] = <<>> /\ L[2] = line /\ L[3] = <<>>
        /\ L[n - 3] = <<>> /\ L[n - 2] = line /\ L[n - 1] = <<>> /\ L[n] = <<>>

-----------------------------------------------------------------------------
(* C2 *)

\* C2: add_navigation_links is idempotent: a second call with the same
\* previous and next file returns what the first call returned.
C2_Idempotent == calls = 2 => content = once

-----------------------------------------------------------------------------
(* C3 *)

\* C3: after a run over a list of n existing files, the first file (n > 1)
\* is framed by a line that is only the Next link to entry 2 of the list,
\* the last (n > 1) by a line that is only the Previous link to the entry
\* before it, every file between by the Previous link to the entry before
\* it joined to the Next link to the entry after it, and for n = 1 the
\* file is as it was.
C3_NavigationByPosition ==
    (pc = "done" /\ ListOfExistingFiles) =>
        \A k \in Positions :
            IF Len(doc_files) = 1 THEN fs[FileAt(k)] = fs0[FileAt(k)]
            ELSE /\ FramedBy(fs[FileAt(k)], LineAt(k))
                 /\ k = 1 => "<- Previous:" \notin Range(Lines(fs[FileAt(k)])[2])
                 /\ k = Len(doc_files) =>
                        "Next:" \notin Range(Lines(fs[FileAt(k)])[2])

\* a finished run over three existing files
C3_Witness ==
    /\ pc = "done"
    /\ ListOfExistingFiles
    /\ Len(doc_files) = 3
    /\ FramedBy(fs[FileAt(2)], LineAt(2))

-----------------------------------------------------------------------------
(* C4 *)

\* C4: an entry whose file does not exist gets a warning, its file is
\* neither created nor written, it raises no error, and every entry whose
\* file exists is still updated by the time the run completes: the console
\* holds one line per entry handled, in list order.
C4_MissingFileSkipped ==
    /\ \A f \in AllFiles : f \notin DOMAIN fs0 =>
          f \notin DOMAIN fs /\ writes[f] = <<>>
    /\ pc \in {"loop", "done", "failed"} /\ failed # -1 =>
          /\ Len(stdout) = i - 1
          /\ \A k \in 1..(i - 1) :
                IF FileAt(k) \in DOMAIN fs0
                THEN stdout[k] = <<"Updated", doc_files[k]>>
                     /\ writes[FileAt(k)] # <<>>
                ELSE stdout[k] = <<"Warning", doc_files[k]>>
    /\ pc = "done" => i = Len(doc_files) + 1
    /\ pc = "failed" /\ failed >= 1 => FileAt(failed) \in DOMAIN fs0

\* a finished run whose first and last entries are missing and whose
\* middle entry exists
C4_Witness ==
    /\ pc = "done"
    /\ Len(doc_files) = 3
    /\ FileAt(1) \notin DOMAIN fs0
    /\ FileAt(2) \in DOMAIN fs0
    /\ FileAt(3) \notin DOMAIN fs0
    /\ fs[FileAt(2)] # fs0[FileAt(2)]

-----------------------------------------------------------------------------
(* C5 *)

NavigationLinesOf(text) == SelectSeq(Lines(text), StartsLikeNavigation)

\* C5: after any sequence of runs, every existing file of the last run's
\* list holds the navigation line of its position in that list (twice,
\* top and bottom) and no other navigation line; none if it is the only
\* entry.
C5_OnlyCurrentNavigation ==
    (pc = "done" /\ ListOfExistingFiles) =>
        \A k \in Positions :
            NavigationLinesOf(fs[FileAt(k)]) =
                IF Len(doc_files) = 1 THEN <<>> ELSE <<LineAt(k), LineAt(k)>>

-----------------------------------------------------------------------------
(* C6 *)

\* C6: in one run no file is written more than once, and every file that
\* is listed and exists has been written exactly once when the run is
\* done.
C6_EachFileWrittenOnce ==
    /\ \A f \in AllFiles : Len(writes[f]) <= 1
    /\ pc = "done" =>
          \A k \in Positions :
              FileAt(k) \in DOMAIN fs0 => Len(writes[FileAt(k)]) = 1

-----------------------------------------------------------------------------
(* C7 *)

Occurrences(s, part) ==
    Cardinality({p \in 1..(Len(s) - Len(part) + 1) :
                    SubSeq(s, p, p + Len(part) - 1) = part})

\* C7: with a previous or a next file, the result is: empty line,
\* navigation line, empty line, the trimmed body, empty line, the same
\* navigation line, empty line; and the navigation line occurs exactly
\* twice in it.
C7_LayoutAndTwoLines ==
    (calls = 1 /\ (prev_file # None \/ next_file # None)) =>
        LET line == NavigationLine(prev_file, next_file)
            body == SubSeq(content, Len(line) + 4, Len(content) - Len(line) - 4)
        IN  /\ content = <<"\n">> \o line \o <<"\n", "\n">> \o body
                            \o <<"\n", "\n">> \o line \o <<"\n", "\n">>
            /\ body = Strip(body)
            /\ Occurrences(content, line) = 2

-----------------------------------------------------------------------------
(* C8 *)

\* C8: when the read or write at position k raises, the run stops there:
\* every existing file before k holds what the run wrote to it, every
\* file after k holds what it held before the run.  (The file at k
\* itself, of which the claim says nothing, is left out on both sides.)
C8_StopsWithoutRollback ==
    (pc = "failed" /\ failed >= 1) =>
        /\ i = failed
        /\ \A k \in 1..(failed - 1) :
              (FileAt(k) \in DOMAIN fs /\ FileAt(k) # FileAt(failed)) =>
                  /\ writes[FileAt(k)] # <<>>
                  /\ fs[FileAt(k)] = writes[FileAt(k)][Len(writes[FileAt(k)])]
        /\ \A k \in (failed + 1)..Len(doc_files) :
              (FileAt(k) \in DOMAIN fs /\ FileAt(k) # FileAt(failed)) =>
                  fs[FileAt(k)] = fs0[FileAt(k)]

-----------------------------------------------------------------------------
(* C9 *)

RECURSIVE IsSubsequence(_, _)
IsSubsequence(xs, ys) ==
    IF xs = <<>> THEN TRUE
    ELSE IF ys = <<>> THEN FALSE
    ELSE IF Head(xs) = Head(ys) THEN IsSubsequence(Tail(xs), Tail(ys))
    ELSE IsSubsequence(xs, Tail(ys))

\* the lines of a text that hold something and do not start like a
\* navigation line, each without its surrounding whitespace
OtherLines(text) ==
    LET trimmed == [k \in 1..Len(Lines(text)) |-> Strip(Lines(text)[k])]
    IN  SelectSeq(trimmed, LAMBDA l : l # <<>> /\ ~StartsLikeNavigation(l))

\* C9: add_navigation_links removes only navigation lines: every other
\* line of the content, a line with "[Next:" or "[<- Previous:" part-way
\* through included, is in the result as it was and in its place in the
\* order.  (Stated up to the whitespace around a line, which the trimming
\* of the body may take away.)
C9_OtherLinesKept ==
    calls = 1 => IsSubsequence(OtherLines(orig), OtherLines(content))

-----------------------------------------------------------------------------
(* C10 *)

\* C10: a run changes no file but the existing files the list names: the
\* index document, the files the index does not name, and the set of
\* existing files are as they were when the run started.
C10_OnlyListedFilesChange ==
    pc = "done" =>
        /\ DOMAIN fs = DOMAIN fs0
        /\ fs[README] = fs0[README]
        /\ \A f \in DOMAIN fs :
              f \notin {FileAt(k) : k \in Positions} => fs[f] = fs0[f]

=============================================================================
